---- MODULE Spec2Model ----
(***************************************************************************)
(* SafeExplorerDDPG (safe_control_gym/controllers/safe_ddpg/safe_ddpg.py): *)
(* the two-stage training / evaluation control loop, its buffers and its   *)
(* checkpoint protocol, as a state machine.                                *)
(*                                                                         *)
(* The controller's collaborators (vectorized environment, normalizers,    *)
(* agent, safety layer, buffers, PRNGs) live outside the controller file;  *)
(* they are modelled at their interface by small deterministic stand-ins.  *)
(***************************************************************************)
EXTENDS Integers, Sequences, FiniteSets, TLC

VARIABLES
    cfg,            \* the controller's configuration (constructor kwargs)
    self,           \* the controller object's fields
    env,            \* self.env: the vectorized training environment
    eval_env,       \* self.eval_env: the held-out evaluation environment
    random_state,   \* the process-global PRNG state (get/set_random_state)
    files,          \* checkpoint files on disk: path -> checkpoint record
    pc,             \* position of the caller: "idle" or a place inside learn()
    results,        \* learn()'s local `results` of the current iteration
    last,           \* what the most recent operation did (observation record)
    hist,           \* history of the training run across process restarts
    calls,          \* number of top-level calls made so far
    iter,           \* bookkeeping of the learn() call in progress
    twin            \* a second run resumed from the latest checkpoint

vars == <<cfg, self, env, eval_env, random_state, files, pc, results, last,
          hist, calls, iter, twin>>

----------------------------------------------------------------------------
(* Bounds of the model.                                                    *)

MaxCalls == 4       \* top-level calls (save/load/run/reset/learn/restart)

----------------------------------------------------------------------------
(* Collaborators outside the controller file, modelled at their interface. *)

RngMod == 11        \* size of the PRNG state space
NumAct == 2         \* the action space is {0 .. NumAct-1}
XMax == 2           \* an environment instance fails when x reaches XMax
TimeLimit == 2      \* an episode is truncated after TimeLimit steps
ParamMod == 3       \* size of the abstract parameter spaces
ClipObs == 2        \* clip of the observation normalizer
Seed == 0           \* the controller's seed
EvalBatchSize == 1  \* eval_batch_size: episodes per policy evaluation

\* One draw advances a PRNG state; the value drawn depends on the state.
\* From 0 the generator visits 0,1,3,7,4,9,8,6,2,5 and returns to 0.
Lcg(r) == (2 * r + 1) % RngMod
Draw(r, n) == r % n

Min(a, b) == IF a < b THEN a ELSE b
Max(a, b) == IF a > b THEN a ELSE b

RECURSIVE SumSeq(_)
SumSeq(s) == IF s = <<>> THEN 0 ELSE Head(s) + SumSeq(Tail(s))

\* info[i]["constraint_values"] of an instance at position x.
constraint_values(x) == XMax - x

\* env.action_space.sample() called n times on the global PRNG:
\* [act |-> the n actions, rng |-> the PRNG state afterwards].
RECURSIVE SampleActions(_, _)
SampleActions(n, r) ==
    IF n = 0 THEN [act |-> <<>>, rng |-> r]
    ELSE LET rest == SampleActions(n - 1, Lcg(r))
         IN  [act |-> <<Draw(r, NumAct)>> \o rest.act, rng |-> rest.rng]

\* VecEnv.reset(): every instance starts a new episode at a position drawn
\* from the environment's PRNG.
RECURSIVE VecResetAcc(_, _, _)
VecResetAcc(n, r, acc) ==
    IF n = 0 THEN [inst |-> acc, rng |-> r]
    ELSE VecResetAcc(n - 1, Lcg(r), Append(acc, [x |-> Draw(r, XMax), t |-> 0]))

VecReset(e, n) ==
    LET got == VecResetAcc(n, e.rng, <<>>)
    IN  [env  |-> [e EXCEPT !.inst = got.inst, !.rng = got.rng],
         obs  |-> [i \in 1..n |-> got.inst[i].x],
         info |-> [i \in 1..n |->
                     [constraint_values |-> constraint_values(got.inst[i].x)]]]

\* VecEnv.step(act): every instance advances; an instance whose episode ends
\* (failure at XMax, or truncation by the time limit) reports the terminal
\* observation and terminal_info, is reset, and returns the reset observation.
RECURSIVE VecStepAcc(_, _, _)
VecStepAcc(i, act, acc) ==
    IF i > Len(act) THEN acc
    ELSE
      LET e     == acc.inst[i]
          x1    == Min(e.x + act[i], XMax)
          t1    == e.t + 1
          fail  == x1 >= XMax
          trunc == ~fail /\ t1 >= TimeLimit
          done  == fail \/ trunc
          x0    == Draw(acc.rng, XMax)
          inf   == IF done
                   THEN [constraint_values    |-> constraint_values(x0),
                         has_terminal         |-> TRUE,
                         truncated            |-> trunc,
                         terminal_observation |-> x1,
                         terminal_c           |-> constraint_values(x1)]
                   ELSE [constraint_values    |-> constraint_values(x1),
                         has_terminal         |-> FALSE,
                         truncated            |-> FALSE,
                         terminal_observation |-> 0,
                         terminal_c           |-> 0]
      IN VecStepAcc(i + 1, act,
           [inst |-> [acc.inst EXCEPT ![i] =
                        IF done THEN [x |-> x0, t |-> 0] ELSE [x |-> x1, t |-> t1]],
            rng  |-> IF done THEN Lcg(acc.rng) ELSE acc.rng,
            obs  |-> Append(acc.obs, IF done THEN x0 ELSE x1),
            rew  |-> Append(acc.rew, act[i]),
            done |-> Append(acc.done, done),
            info |-> Append(acc.info, inf)])

VecStep(e, act) ==
    LET got == VecStepAcc(1, act, [inst |-> e.inst, rng |-> e.rng, obs |-> <<>>,
                                   rew |-> <<>>, done |-> <<>>, info |-> <<>>])
    IN  [env  |-> [e EXCEPT !.inst = got.inst, !.rng = got.rng],
         obs  |-> got.obs, rew |-> got.rew, done |-> got.done, info |-> got.info]

\* The single (non-vectorized) environment wrapped by RecordEpisodeStatistics:
\* reset() and step() of the evaluation environment.
SingleReset(e) ==
    [env  |-> [e EXCEPT !.x = Draw(e.rng, XMax), !.t = 0, !.ret = 0, !.rng = Lcg(e.rng)],
     obs  |-> Draw(e.rng, XMax),
     info |-> [constraint_values |-> constraint_values(Draw(e.rng, XMax))]]

SingleStep(e, a) ==
    LET x1   == Min(e.x + a, XMax)
        t1   == e.t + 1
        done == x1 >= XMax \/ t1 >= TimeLimit
    IN  [env  |-> [e EXCEPT !.x = x1, !.t = t1, !.ret = e.ret + a],
         obs  |-> x1,
         done |-> done,
         info |-> [constraint_values |-> constraint_values(x1),
                   episode_r |-> e.ret + a]]

\* MeanStdNormalizer / BaseNormalizer called on a batch xs: unless read-only
\* it first absorbs the batch into its running statistics; the output is the
\* input centred on the running mean and clipped.  BaseNormalizer (norm_obs
\* off) returns its input and keeps no statistics.
Clip(v) == Max(0 - ClipObs, Min(ClipObs, v))

NormMean(nz) == IF nz.count = 0 THEN 0 ELSE nz.sum \div nz.count

Absorb(nz, xs) ==
    IF nz.enabled /\ ~nz.read_only
    THEN [nz EXCEPT !.count = nz.count + Len(xs), !.sum = nz.sum + SumSeq(xs)]
    ELSE nz

Normalize(nz, xs) ==
    IF nz.enabled
    THEN [i \in 1..Len(xs) |-> Clip(xs[i] - NormMean(Absorb(nz, xs)))]
    ELSE xs

\* SafetyLayer.get_safe_action: the learned constraint model (parameter sl)
\* overrides an action that would exhaust the remaining constraint margin c.
get_safe_action(sl, a, cv) == IF sl >= 1 /\ cv - a <= 0 THEN 0 ELSE a

\* agent.ac.act(obs, c=c): the deterministic policy's action for one
\* instance, passed through the safety projection.
ac_act(agent, sl, o, cv) == get_safe_action(sl, (agent + o) % NumAct, cv)

\* agent.update(batch) and safety_layer.update(batch): a deterministic
\* function of the parameters and of the batch.
RECURSIVE BatchSum(_)
BatchSum(b) == IF b = <<>> THEN 0 ELSE Head(b).act + Head(b).c + BatchSum(Tail(b))

agent_update(agent, batch) == (agent + 1 + BatchSum(batch)) % ParamMod

RECURSIVE CBatchSum(_)
CBatchSum(b) == IF b = <<>> THEN 0 ELSE Head(b).act + Head(b).c_next + CBatchSum(Tail(b))

safety_update(sl, batch) == (sl + 1 + CBatchSum(batch)) % ParamMod

----------------------------------------------------------------------------
(* Replay Buffer (SafeDDPGBuffer) and Constraint Buffer: a fixed capacity, *)
(* a write pointer `pos`, a filled count `buffer_size`, zero-initialised   *)
(* storage.                                                                *)

ZeroTransition == [obs |-> 0, act |-> 0, rew |-> 0, next_obs |-> 0, mask |-> 0, c |-> 0]
ZeroConstraintTransition == [act |-> 0, obs |-> 0, c |-> 0, c_next |-> 0]

NewBuffer(max_size, zero) ==
    [max_size |-> max_size, data |-> [i \in 1..max_size |-> zero],
     pos |-> 0, buffer_size |-> 0]

\* push(batch): the items are written at the pointer, wrapping to the start
\* when the end of the storage is reached.
RECURSIVE buffer_push(_, _)
buffer_push(buf, batch) ==
    IF batch = <<>> THEN buf
    ELSE buffer_push(
           [buf EXCEPT !.data = [buf.data EXCEPT ![buf.pos + 1] = Head(batch)],
                       !.pos = (buf.pos + 1) % buf.max_size,
                       !.buffer_size = Min(buf.max_size, buf.buffer_size + 1)],
           Tail(batch))

\* sample(batch_size): indices drawn with replacement, uniformly over the
\* filled region, from the global PRNG.  Sampling an empty buffer is invalid:
\* it is reported in `empty` and yields no items.
RECURSIVE buffer_sample(_, _, _)
buffer_sample(buf, n, r) ==
    IF buf.buffer_size = 0 THEN [batch |-> <<>>, rng |-> r, empty |-> TRUE]
    ELSE IF n = 0 THEN [batch |-> <<>>, rng |-> r, empty |-> FALSE]
    ELSE LET rest == buffer_sample(buf, n - 1, Lcg(r))
         IN  [batch |-> <<buf.data[Draw(r, buf.buffer_size) + 1]>> \o rest.batch,
              rng |-> rest.rng, empty |-> FALSE]

\* ConstraintBuffer.reset(): contents discarded, pointer and count zeroed.
constraint_buffer_reset(buf) == NewBuffer(buf.max_size, ZeroConstraintTransition)

\* ConstraintBuffer.sampler(batch_size): the filled contents cut into
\* consecutive mini-batches of batch_size; the last one may be shorter.
RECURSIVE Chunks(_, _)
Chunks(items, n) ==
    IF items = <<>> THEN <<>>
    ELSE IF Len(items) <= n THEN <<items>>
    ELSE <<SubSeq(items, 1, n)>> \o Chunks(SubSeq(items, n + 1, Len(items)), n)

sampler(buf, batch_size) == Chunks(SubSeq(buf.data, 1, buf.buffer_size), batch_size)

----------------------------------------------------------------------------
(* Checkpoints.                                                            *)

NoFile == [exists |-> FALSE]

\* state_dict() of a normalizer: its statistics, not its read-only switch.
normalizer_state_dict(nz) == [count |-> nz.count, sum |-> nz.sum]

normalizer_load_state_dict(nz, sd) == [nz EXCEPT !.count = sd.count, !.sum = sd.sum]

\* Mutant of exp_state: the environment's PRNG state is not captured.
exp_state_without_env_rng(w) ==
    [total_steps       |-> w.self.total_steps,
     obs               |-> w.self.obs,
     c                 |-> w.self.c,
     random_state      |-> w.random_state,
     env_random_state  |-> Seed]

\* save(): exp_state, the experiment state of a training-mode checkpoint.
\* w is the world the call runs in: [self, env, eval_env, random_state].
exp_state(w) ==
    [total_steps       |-> w.self.total_steps,
     obs               |-> w.self.obs,
     c                 |-> w.self.c,
     random_state      |-> w.random_state,
     env_random_state  |-> w.env.rng]

\* save(path, save_buffer): the record written to `path`.
save(w, save_buffer) ==
    exp_state(w) @@
    [exists            |-> TRUE,
     agent             |-> w.self.agent,
     safety_layer      |-> w.self.safety_layer,
     obs_normalizer    |-> normalizer_state_dict(w.self.obs_normalizer),
     reward_normalizer |-> w.self.reward_normalizer,
     has_buffer        |-> save_buffer,
     buffer            |-> IF save_buffer THEN w.self.buffer ELSE <<>>,
     has_constraint_buffer |-> cfg.pretraining,
     constraint_buffer |-> IF cfg.pretraining THEN w.self.constraint_buffer ELSE <<>>]

\* load(path): the world after restoring from checkpoint record ck.
load(w, ck) ==
    [w EXCEPT
       !.self = [w.self EXCEPT
                   !.agent = ck.agent,
                   !.safety_layer = ck.safety_layer,
                   !.obs_normalizer = normalizer_load_state_dict(@, ck.obs_normalizer),
                   !.reward_normalizer = ck.reward_normalizer,
                   !.total_steps = ck.total_steps,
                   !.obs = ck.obs,
                   !.c = ck.c,
                   !.buffer = IF ck.has_buffer THEN ck.buffer ELSE @,
                   !.constraint_buffer =
                       IF cfg.pretraining THEN ck.constraint_buffer ELSE @],
       !.random_state = ck.random_state,
       !.env = [w.env EXCEPT !.rng = ck.env_random_state]]

----------------------------------------------------------------------------
(* The controller's operations.  w is the world an operation runs in:      *)
(* [self, env, eval_env, random_state]; an operation yields the world      *)
(* after it (w) and what it did (out).                                     *)

B == cfg.rollout_batch_size

\* The checkpoint of an earlier pre-training run, found at cfg.pretrained.
PretrainedCheckpoint ==
    [exists |-> TRUE, agent |-> 1, safety_layer |-> 2,
     obs_normalizer |-> [count |-> 1, sum |-> 1], reward_normalizer |-> 0,
     total_steps |-> 2, obs |-> <<>>, c |-> <<>>, random_state |-> 5,
     env_random_state |-> 6, has_buffer |-> FALSE, buffer |-> <<>>,
     has_constraint_buffer |-> FALSE, constraint_buffer |-> <<>>]

\* __init__: the freshly constructed controller and its environments.
NewSelf ==
    [is_reset |-> FALSE, agent |-> 0, agent_mode |-> "train",
     safety_layer |-> 0, safety_mode |-> "train",
     obs_normalizer |-> [enabled |-> cfg.norm_obs, read_only |-> FALSE,
                         count |-> 0, sum |-> 0],
     reward_normalizer |-> 0,
     total_steps |-> 0, obs |-> <<>>, c |-> <<>>,
     buffer |-> <<>>, constraint_buffer |-> <<>>,
     eval_best_score |-> [set |-> FALSE, v |-> 0]]

NewEnv ==
    [inst |-> [i \in 1..B |-> [x |-> 0, t |-> 0]], rng |-> Seed, trackers |-> {}]

NewEvalEnv == [x |-> 0, t |-> 0, ret |-> 0, rng |-> (Seed * 111 + 1) % RngMod,
               trackers |-> {}]

World == [self |-> self, env |-> env, eval_env |-> eval_env,
          random_state |-> random_state]

\* reset(): the assertion of the adaptation branch.
reset_fails == ~cfg.pretraining /\ cfg.pretrained = "None"

\* Mutant of reset_load_pretrained: the agent is taken from the checkpoint too.
reset_load_pretrained_and_agent(s, state) ==
    [s EXCEPT !.safety_layer = state.safety_layer, !.agent = state.agent]

\* reset(): which parameters are taken from the pre-trained checkpoint.
reset_load_pretrained(s, state) == [s EXCEPT !.safety_layer = state.safety_layer]

\* reset() in training mode, when its assertion passes.  fs: the files.
reset(w, fs) ==
    LET s1 == IF cfg.pretraining
              THEN [w.self EXCEPT !.constraint_buffer =
                      NewBuffer(cfg.constraint_buffer_size, ZeroConstraintTransition)]
              ELSE reset_load_pretrained(w.self, fs[cfg.pretrained])
        e1 == IF cfg.pretraining THEN w.env
              ELSE [w.env EXCEPT !.trackers = @ \cup
                      {<<"constraint_violation", "accumulate">>,
                       <<"constraint_violation", "queue">>}]
        ev1 == IF cfg.pretraining THEN w.eval_env
               ELSE [w.eval_env EXCEPT !.trackers = @ \cup
                       {<<"constraint_violation", "queue">>, <<"mse", "queue">>}]
        rs == VecReset(e1, B)
    IN  [w |-> [w EXCEPT
                  !.self = [s1 EXCEPT
                      !.is_reset = TRUE,
                      !.total_steps = 0,
                      !.obs = Normalize(s1.obs_normalizer, rs.obs),
                      !.obs_normalizer = Absorb(s1.obs_normalizer, rs.obs),
                      !.c = [i \in 1..B |-> rs.info[i].constraint_values],
                      !.buffer = NewBuffer(cfg.max_buffer_size, ZeroTransition)],
                  !.env = rs.env,
                  !.eval_env = ev1],
         out |-> [op |-> "reset", raw_obs |-> rs.obs]]

\* Mutant of in_warm_up: the threshold step itself still samples.
in_warm_up_inclusive(total_steps) == total_steps <= cfg.warm_up_steps

\* train_step: the warm-up test on entry.
in_warm_up(total_steps) == total_steps < cfg.warm_up_steps

\* Mutant of is_time_truncated: every episode end counts as a truncation.
is_time_truncated_any_end(inf) == inf.has_terminal

\* train_step: is instance info `inf` a time-truncated episode end?
is_time_truncated(inf) == inf.has_terminal /\ inf.truncated

RECURSIVE terminal_idx_from(_, _)
terminal_idx_from(i, info) ==
    IF i > Len(info) THEN <<>>
    ELSE (IF is_time_truncated(info[i]) THEN <<i>> ELSE <<>>)
         \o terminal_idx_from(i + 1, info)

PosIn(seq, v) == CHOOSE k \in 1..Len(seq) : seq[k] = v

InSeq(seq, v) == \E k \in 1..Len(seq) : seq[k] = v

\* Mutant of update_due: the step that reaches warm_up_steps updates too.
update_due_at_warm_up(total_steps) ==
    total_steps >= cfg.warm_up_steps /\ total_steps % cfg.train_interval = 0

\* train_step: does this step run agent updates, given the new total_steps?
update_due(total_steps) ==
    total_steps > cfg.warm_up_steps /\ total_steps % cfg.train_interval = 0

\* train_step: the update loop, k iterations of sample + agent.update.
RECURSIVE update_loop(_, _, _, _)
update_loop(k, agent, buf, r) ==
    IF k = 0 THEN [agent |-> agent, rng |-> r, n |-> 0, empty |-> FALSE]
    ELSE LET sm   == buffer_sample(buf, cfg.train_batch_size, r)
             rest == update_loop(k - 1, agent_update(agent, sm.batch), buf, sm.rng)
         IN  [agent |-> rest.agent, rng |-> rest.rng, n |-> rest.n + 1,
              empty |-> sm.empty \/ rest.empty]

\* train_step(): the action selection (warm-up sampling or the policy).
train_step_act(w) ==
    LET warm == in_warm_up(w.self.total_steps)
        smp  == SampleActions(B, w.random_state)
    IN  [warm |-> warm,
         nz0  |-> [w.self.obs_normalizer EXCEPT !.read_only = FALSE],
         act  |-> IF warm THEN smp.act
                  ELSE [i \in 1..B |-> ac_act(w.self.agent, w.self.safety_layer,
                                              w.self.obs[i], w.self.c[i])],
         rng  |-> IF warm THEN smp.rng ELSE w.random_state]

\* train_step(): the record of the step and the world after it.  a: the
\* action selection, st: the environment step, tr: the truncation-corrected
\* push, upd: the agent updates.
train_step_result(w, a, st, tr, upd) ==
    [w |-> [w EXCEPT
              !.self = [w.self EXCEPT
                  !.agent_mode = "train",
                  !.agent = upd.agent,
                  !.obs_normalizer = tr.nz2,
                  !.buffer = tr.buf1,
                  !.obs = tr.next_obs,
                  !.c = [i \in 1..B |-> st.info[i].constraint_values],
                  !.total_steps = tr.total],
              !.env = st.env,
              !.random_state = upd.rng],
     results |-> [keys |-> (IF upd.n > 0 THEN {"policy_loss", "critic_loss"} ELSE {})
                           \cup {"step", "elapsed_time"},
                  step |-> tr.total],
     out |-> [op |-> "train_step",
              entry_total |-> w.self.total_steps, entry_obs |-> w.self.obs,
              entry_c |-> w.self.c,
              entry_agent |-> w.self.agent, entry_safety |-> w.self.safety_layer,
              entry_rng |-> w.random_state, entry_nz |-> w.self.obs_normalizer,
              nz_step |-> a.nz0,
              n_sampled |-> IF a.warm THEN B ELSE 0,
              n_policy |-> IF a.warm THEN 0 ELSE 1,
              act |-> a.act,
              step |-> [obs |-> st.obs, done |-> st.done, info |-> st.info],
              nz_terminal |-> tr.nz1, pushed |-> tr.batch,
              n_updates |-> upd.n, sampled_empty |-> upd.empty,
              acts |-> <<a.act>>]]

\* Mutant of train_step_update: the batches are sampled from the buffer as
\* it was before the push.
train_step_update_before_push(w, a, st, tr) ==
    train_step_result(w, a, st, tr,
        IF update_due(tr.total)
        THEN update_loop(cfg.train_interval, w.self.agent, w.self.buffer, a.rng)
        ELSE [agent |-> w.self.agent, rng |-> a.rng, n |-> 0, empty |-> FALSE])

\* train_step(): the agent updates that are due after the push.
train_step_update(w, a, st, tr) ==
    train_step_result(w, a, st, tr,
        IF update_due(tr.total)
        THEN update_loop(cfg.train_interval, w.self.agent, tr.buf1, a.rng)
        ELSE [agent |-> w.self.agent, rng |-> a.rng, n |-> 0, empty |-> FALSE])

\* Mutant of train_step_push: total_steps counts the step, not the instances.
train_step_push_counts_one(w, a, st, next_obs, nz1, terminal_idx, terminal_obs, nz2) ==
    LET batch == [i \in 1..B |->
                    [obs |-> w.self.obs[i], act |-> a.act[i], rew |-> st.rew[i],
                     next_obs |-> IF InSeq(terminal_idx, i)
                                  THEN terminal_obs[PosIn(terminal_idx, i)]
                                  ELSE next_obs[i],
                     mask |-> IF InSeq(terminal_idx, i) THEN 1
                              ELSE IF st.done[i] THEN 0 ELSE 1,
                     c |-> w.self.c[i]]]
    IN  [next_obs |-> next_obs, nz1 |-> nz1, nz2 |-> nz2, batch |-> batch,
         buf1 |-> buffer_push(w.self.buffer, batch),
         total |-> w.self.total_steps + 1]

\* Mutant of train_step_push: the batch is pushed twice.
train_step_push_twice(w, a, st, next_obs, nz1, terminal_idx, terminal_obs, nz2) ==
    LET batch == [i \in 1..B |->
                    [obs |-> w.self.obs[i], act |-> a.act[i], rew |-> st.rew[i],
                     next_obs |-> IF InSeq(terminal_idx, i)
                                  THEN terminal_obs[PosIn(terminal_idx, i)]
                                  ELSE next_obs[i],
                     mask |-> IF InSeq(terminal_idx, i) THEN 1
                              ELSE IF st.done[i] THEN 0 ELSE 1,
                     c |-> w.self.c[i]]]
    IN  [next_obs |-> next_obs, nz1 |-> nz1, nz2 |-> nz2, batch |-> batch,
         buf1 |-> buffer_push(w.self.buffer, batch \o batch),
         total |-> w.self.total_steps + B]

\* train_step(): the transitions pushed to the buffer.  terminal_obs: the
\* normalized terminal observations of the time-truncated instances.
train_step_push(w, a, st, next_obs, nz1, terminal_idx, terminal_obs, nz2) ==
    LET batch == [i \in 1..B |->
                    [obs |-> w.self.obs[i], act |-> a.act[i], rew |-> st.rew[i],
                     next_obs |-> IF InSeq(terminal_idx, i)
                                  THEN terminal_obs[PosIn(terminal_idx, i)]
                                  ELSE next_obs[i],
                     mask |-> IF InSeq(terminal_idx, i) THEN 1
                              ELSE IF st.done[i] THEN 0 ELSE 1,
                     c |-> w.self.c[i]]]
    IN  [next_obs |-> next_obs, nz1 |-> nz1, nz2 |-> nz2, batch |-> batch,
         buf1 |-> buffer_push(w.self.buffer, batch),
         total |-> w.self.total_steps + B]

\* train_step(): the terminal observations of the time-truncated instances
\* are normalized after the step's observations have been.
train_step_truncation(w, a, st, next_obs, nz1, terminal_idx) ==
    LET terminal_raw == [k \in 1..Len(terminal_idx) |->
                           st.info[terminal_idx[k]].terminal_observation]
    IN  train_step_push(w, a, st, next_obs, nz1, terminal_idx,
            IF Len(terminal_idx) > 0 THEN Normalize(nz1, terminal_raw) ELSE <<>>,
            IF Len(terminal_idx) > 0 THEN Absorb(nz1, terminal_raw) ELSE nz1)

\* train_step(): what follows the environment step st.
train_step_after(w, a, st) ==
    train_step_update(w, a, st,
        train_step_truncation(w, a, st, Normalize(a.nz0, st.obs),
                              Absorb(a.nz0, st.obs), terminal_idx_from(1, st.info)))

\* train_step(): the vectorized environment step with the selected actions.
train_step_env(w, a) == train_step_after(w, a, VecStep(w.env, a.act))

\* train_step(): one vectorized environment step, the truncation-corrected
\* push, and the agent updates that are due.
train_step(w) == train_step_env(w, train_step_act(w))

\* Mutant of collect_push: c_next is always the freshly observed value.
collect_push_fresh_c_next(st, sa, sp) ==
    LET batch == [i \in 1..B |->
                    [act |-> sa.act[i], obs |-> st.obs[i], c |-> st.c[i],
                     c_next |-> sp.info[i].constraint_values]]
    IN  [env    |-> sp.env,
         nz     |-> Absorb(st.nz, sp.obs),
         cbuf   |-> buffer_push(st.cbuf, batch),
         obs    |-> Normalize(st.nz, sp.obs),
         c      |-> [i \in 1..B |-> sp.info[i].constraint_values],
         acts   |-> Append(st.acts, sa.act),
         pushed |-> st.pushed + B,
         start  |-> st.start,
         steps  |-> Append(st.steps, [done |-> sp.done, info |-> sp.info,
                                      obs |-> sp.obs, nz |-> st.nz,
                                      batch |-> batch])]

\* collect_constraint_data: the loop's locals after one iteration.  sa: the
\* sampled actions, sp: the environment step.
collect_push(st, sa, sp) ==
    LET batch == [i \in 1..B |->
                    [act |-> sa.act[i], obs |-> st.obs[i], c |-> st.c[i],
                     c_next |-> IF sp.done[i] THEN sp.info[i].terminal_c
                                ELSE sp.info[i].constraint_values]]
    IN  [env    |-> sp.env,
         nz     |-> Absorb(st.nz, sp.obs),
         cbuf   |-> buffer_push(st.cbuf, batch),
         obs    |-> Normalize(st.nz, sp.obs),
         c      |-> [i \in 1..B |-> sp.info[i].constraint_values],
         acts   |-> Append(st.acts, sa.act),
         pushed |-> st.pushed + B,
         start  |-> st.start,
         steps  |-> Append(st.steps, [done |-> sp.done, info |-> sp.info,
                                      obs |-> sp.obs, nz |-> st.nz,
                                      batch |-> batch])]

\* collect_constraint_data: one iteration, with the actions sa sampled from
\* the environment's action space.
collect_step(st, sa) ==
    collect_push(st, sa, VecStep([st.env EXCEPT !.rng = sa.rng], sa.act))

\* collect_constraint_data: the collection loop.  st carries the loop's
\* locals and the objects it mutates.
RECURSIVE collect_loop(_, _, _)
collect_loop(step, num_steps, st) ==
    IF ~(step < num_steps) THEN st
    ELSE collect_loop(step + B, num_steps,
                      collect_step(st, SampleActions(B, st.env.rng)))

\* collect_constraint_data: the world after the loop ended with locals st.
collect_done(w, st) ==
    [w |-> [w EXCEPT !.env = st.env,
                     !.self = [w.self EXCEPT !.obs_normalizer = st.nz,
                                             !.constraint_buffer = st.cbuf]],
     out |-> [acts |-> st.acts, pushed |-> st.pushed, steps |-> st.steps,
              start |-> st.start,
              held_before |-> w.self.constraint_buffer.buffer_size]]

\* collect_constraint_data: the loop, started from the reset rs.
collect_from(w, num_steps, rs) ==
    collect_done(w, collect_loop(0, num_steps,
        [env |-> rs.env, nz |-> Absorb(w.self.obs_normalizer, rs.obs),
         cbuf |-> w.self.constraint_buffer,
         obs |-> Normalize(w.self.obs_normalizer, rs.obs),
         c |-> [i \in 1..B |-> rs.info[i].constraint_values],
         acts |-> <<>>, pushed |-> 0, steps |-> <<>>,
         start |-> [obs |-> rs.obs, info |-> rs.info,
                    nz |-> w.self.obs_normalizer]]))

\* collect_constraint_data(num_steps): random-policy rollout on the training
\* environment into the Constraint Buffer.
collect_constraint_data(w, num_steps) == collect_from(w, num_steps, VecReset(w.env, B))

RECURSIVE safety_update_all(_, _)
safety_update_all(sl, batches) ==
    IF batches = <<>> THEN sl
    ELSE safety_update_all(safety_update(sl, Head(batches)), Tail(batches))

\* pretrain_step(): the updates on the mini-batches of the collected data.
pretrain_update(entry_total, col, batches) ==
    [w |-> [col.w EXCEPT !.self = [col.w.self EXCEPT
               !.total_steps = @ + 1,
               !.safety_layer = safety_update_all(@, batches),
               !.constraint_buffer = constraint_buffer_reset(@)]],
     results |-> [keys |-> (IF Len(batches) > 0 THEN {"constraint_0_loss"} ELSE {})
                           \cup {"step", "elapsed_time"},
                  step |-> col.w.self.total_steps + 1],
     out |-> [op |-> "pretrain_step", entry_total |-> entry_total,
              acts |-> col.out.acts, pushed |-> col.out.pushed,
              steps |-> col.out.steps, start |-> col.out.start,
              held_before |-> col.out.held_before,
              n_updates |-> Len(batches), batches |-> batches,
              stored |-> SubSeq(col.w.self.constraint_buffer.data, 1,
                                col.w.self.constraint_buffer.buffer_size)]]

\* Mutant of pretrain_sample: the buffer is cleared before it is iterated.
pretrain_sample_after_clear(entry_total, col) ==
    pretrain_update(entry_total, col,
        sampler(constraint_buffer_reset(col.w.self.constraint_buffer),
                cfg.constraint_batch_size))

\* pretrain_step(): the mini-batches drawn from the collected data col.
pretrain_sample(entry_total, col) ==
    pretrain_update(entry_total, col,
        sampler(col.w.self.constraint_buffer, cfg.constraint_batch_size))

\* pretrain_step(): one pre-training epoch.
pretrain_step(w) ==
    pretrain_sample(w.self.total_steps,
        collect_constraint_data(
            [w EXCEPT !.self = [w.self EXCEPT
                !.safety_mode = "train", !.obs_normalizer.read_only = FALSE]],
            cfg.constraint_steps_per_epoch))

\* eval_constraint_models(): the losses on the mini-batches.
eval_constraint_losses(col, batches) ==
    [w |-> [col.w EXCEPT !.self = [col.w.self EXCEPT
               !.constraint_buffer = constraint_buffer_reset(@)]],
     eval_results |-> [keys |-> IF Len(batches) > 0 THEN {"constraint_0_loss"}
                                ELSE {}],
     out |-> [op |-> "eval_constraint_models",
              acts |-> col.out.acts, pushed |-> col.out.pushed,
              steps |-> col.out.steps, start |-> col.out.start,
              held_before |-> col.out.held_before,
              n_batches |-> Len(batches), batches |-> batches,
              stored |-> SubSeq(col.w.self.constraint_buffer.data, 1,
                                col.w.self.constraint_buffer.buffer_size)]]

\* eval_constraint_models(): the mini-batches drawn from the fresh data col.
eval_constraint_sample(col) ==
    eval_constraint_losses(col,
        sampler(col.w.self.constraint_buffer, cfg.constraint_batch_size))

\* eval_constraint_models(): loss of the constraint models on fresh data.
eval_constraint_models(w) ==
    eval_constraint_sample(
        collect_constraint_data(
            [w EXCEPT !.self = [w.self EXCEPT
                !.safety_mode = "eval", !.obs_normalizer.read_only = TRUE]],
            cfg.constraint_eval_steps))

\* run(): which environment the evaluation runs on.  which is the `env`
\* argument: "None" or "eval_env".
run_env(which) == IF which = "None" THEN "env" ELSE which

RECURSIVE run_loop(_, _, _, _, _, _)
\* run(): the head of the next loop iteration, after the reset or step rs.
run_observe(s, rs, ep_returns, n_episodes) ==
    run_loop(s, rs.env, Normalize(s.obs_normalizer, <<rs.obs>>)[1],
             rs.info.constraint_values, ep_returns, n_episodes)

\* run(): the rest of a loop iteration after the environment step sp; a
\* finished episode is recorded and the environment reset.
run_after_step(s, sp, ep_returns, n_episodes) ==
    IF sp.done
    THEN run_observe(s, SingleReset(sp.env), Append(ep_returns, sp.info.episode_r),
                     n_episodes)
    ELSE run_observe(s, sp, ep_returns, n_episodes)

\* run(): the episode loop on the single evaluation environment e.
run_loop(s, e, obs, c, ep_returns, n_episodes) ==
    IF ~(Len(ep_returns) < n_episodes)
    THEN [env |-> e, obs |-> obs, c |-> c, ep_returns |-> ep_returns]
    ELSE run_after_step(s, SingleStep(e, ac_act(s.agent, s.safety_layer, obs, c)),
                        ep_returns, n_episodes)

run_episodes(s, e, n_episodes) == run_observe(s, SingleReset(e), <<>>, n_episodes)

\* Mutant of run_world: the loop's obs and c are kept on the controller.
run_world_writes_self(w, s1, ep) ==
    [w EXCEPT !.self = [s1 EXCEPT !.obs = [i \in 1..B |-> ep.obs],
                                  !.c = [i \in 1..B |-> ep.c]],
              !.eval_env = ep.env]

\* run(): the world after an evaluation on the evaluation environment.
run_world(w, s1, ep) == [w EXCEPT !.self = s1, !.eval_env = ep.env]

\* run(): the results of the episodes ep; s1 is the controller in eval mode.
run_result(w, s1, ep) ==
    [w |-> run_world(w, s1, ep),
     eval_results |-> [keys |-> {"ep_returns", "ep_lengths"} \cup
                                {t[1] : t \in ep.env.trackers},
                       ep_returns |-> ep.ep_returns],
     out |-> [op |-> "run", on |-> "eval_env", raised |-> "None",
              nz |-> s1.obs_normalizer]]

\* run() on the vectorized training environment: the reset succeeds and the
\* read of info["constraint_values"] then fails, since a vectorized info
\* holds the per-instance dictionaries under "n" (as reset() and train_step
\* read it).
run_on_training_env(w, s1) ==
    [w |-> [w EXCEPT !.self = s1, !.env = VecReset(w.env, B).env],
     eval_results |-> [keys |-> {}, ep_returns |-> <<>>],
     out |-> [op |-> "run", on |-> "env", raised |-> "KeyError",
              nz |-> s1.obs_normalizer]]

\* Mutant of run_eval_mode: the normalizer is left in the mode it is in.
run_eval_mode_writable(s) == [s EXCEPT !.agent_mode = "eval"]

\* run(): the controller switched to evaluation mode.
run_eval_mode(s) == [s EXCEPT !.agent_mode = "eval", !.obs_normalizer.read_only = TRUE]

\* run(env, n_episodes): policy evaluation; obs and c of the episode loop
\* are locals of run().
run(w, which, n_episodes) ==
    IF run_env(which) = "env"
    THEN run_on_training_env(w, run_eval_mode(w.self))
    ELSE run_result(w, run_eval_mode(w.self),
                    run_episodes(run_eval_mode(w.self), w.eval_env, n_episodes))

----------------------------------------------------------------------------
(* learn(): the pieces of one loop iteration.                              *)

\* learn(): the budget of the selected mode.
final_step == IF cfg.pretraining THEN cfg.constraint_epochs ELSE cfg.max_env_steps

\* learn(): the loop condition.
loop_continues(total_steps) == total_steps < final_step

\* Mutant of latest_due: the budget test is strict.
latest_due_past_budget(total_steps) ==
    total_steps > final_step
    \/ (cfg.save_interval # 0 /\ total_steps % cfg.save_interval = 0)

\* learn(): is the latest checkpoint written after this step?
latest_due(total_steps) ==
    total_steps >= final_step
    \/ (cfg.save_interval # 0 /\ total_steps % cfg.save_interval = 0)

\* learn(): the intermediate-checkpoint test divides by
\* final_step // num_checkpoints.
tagged_raises == cfg.num_checkpoints # 0 /\ final_step \div cfg.num_checkpoints = 0

tagged_due(total_steps) ==
    cfg.num_checkpoints # 0
    /\ total_steps % (final_step \div cfg.num_checkpoints) = 0

eval_due(total_steps) ==
    cfg.eval_interval # 0 /\ total_steps % cfg.eval_interval = 0

log_due(total_steps) ==
    cfg.log_interval # 0 /\ total_steps % cfg.log_interval = 0

\* learn(): eval_results["ep_returns"].mean(), scaled by the (fixed) number
\* of episodes.
eval_score_of(eval_results) == SumSeq(eval_results.ep_returns)

\* learn(): is model_best.pt written, given the stored best and the score?
best_improved(eval_best_score, eval_score) ==
    cfg.eval_save_best /\ (~eval_best_score.set \/ eval_best_score.v < eval_score)

\* log_step(results): the dictionary reads that can fail.
log_step_raises(res) ==
    IF cfg.pretraining
    THEN "constraint_0_loss" \notin res.keys
         \/ (res.has_eval /\ "constraint_0_loss" \notin res.eval_keys)
    ELSE res.has_eval
         /\ ~({"ep_lengths", "ep_returns", "constraint_violation", "mse"}
                \subseteq res.eval_keys)

NoResults == [keys |-> {}, step |-> 0, has_eval |-> FALSE, eval_keys |-> {}]

NoIter == [steps |-> 0, entry_total |-> 0, saved_latest |-> FALSE,
           saved_tagged |-> FALSE, evaluated |-> FALSE, wrote_best |-> FALSE,
           score |-> 0, prior_evals |-> 0, prior_max |-> 0]

NoTwin == [active |-> FALSE]

\* The train function learn() selects.
train_func(w) == IF cfg.pretraining THEN pretrain_step(w) ELSE train_step(w)

\* The world after the evaluation part of a loop iteration.
after_eval(w) ==
    IF ~eval_due(w.self.total_steps) THEN w
    ELSE IF cfg.pretraining THEN eval_constraint_models(w).w
    ELSE run(w, "eval_env", EvalBatchSize).w

\* A second process resumes the run: it constructs the controller, calls
\* reset(), loads the latest checkpoint ck, and is paired with an
\* environment in the state e the first run's environment had at the save.
resume(ck, e, fs) ==
    LET w0 == [self |-> NewSelf, env |-> NewEnv, eval_env |-> NewEvalEnv,
               random_state |-> Seed]
        w1 == reset(w0, fs).w
    IN  load([w1 EXCEPT !.env = [e EXCEPT !.trackers = w1.env.trackers]], ck)

\* The resumed run after its train function returned r: the evaluation
\* part follows, and the loop ends if the checkpoint test raises.
twin_after_step(t, r) ==
    [t EXCEPT !.w = after_eval(r.w),
              !.acts = @ \o r.out.acts,
              !.running = ~tagged_raises]

\* One loop iteration of the resumed run's learn(), when the first run
\* makes its next step: the resumed run's world and action trace.
twin_iteration(t) ==
    IF ~t.active \/ ~t.running THEN t
    ELSE IF ~loop_continues(t.w.self.total_steps) THEN [t EXCEPT !.running = FALSE]
    ELSE twin_after_step(t, train_func(t.w))

Commit(w) ==
    /\ self' = w.self
    /\ env' = w.env
    /\ eval_env' = w.eval_env
    /\ random_state' = w.random_state

----------------------------------------------------------------------------
(* Configurations.                                                         *)

\* The configuration the others vary: adaptation with a save, an
\* evaluation and a log every second step.
BaseConfig ==
    [pretraining |-> FALSE, pretrained |-> "pretrained",
     rollout_batch_size |-> 1, warm_up_steps |-> 2, train_interval |-> 1,
     train_batch_size |-> 1, max_buffer_size |-> 3, max_env_steps |-> 4,
     save_interval |-> 2, num_checkpoints |-> 0, eval_interval |-> 2,
     log_interval |-> 1, eval_save_best |-> TRUE, norm_obs |-> FALSE,
     constraint_epochs |-> 2, constraint_steps_per_epoch |-> 3,
     constraint_eval_steps |-> 2, constraint_batch_size |-> 2,
     constraint_buffer_size |-> 4]

\* Main training: the rollout and update settings, the checkpoint and
\* evaluation cadences, and the adaptation without a pre-trained path.
MainConfigs ==
    {[BaseConfig EXCEPT !.rollout_batch_size = b, !.norm_obs = n,
                        !.warm_up_steps = wu, !.train_interval = ti] :
        b \in {1, 2}, n \in BOOLEAN, wu \in {0, 2}, ti \in {1, 2}}
    \cup
    {[BaseConfig EXCEPT !.rollout_batch_size = 2, !.warm_up_steps = wu,
                        !.train_interval = ti] :
        wu \in {1, 3}, ti \in {1, 2}}
    \cup
    {[BaseConfig EXCEPT !.rollout_batch_size = b, !.save_interval = sv,
                        !.eval_interval = ev, !.num_checkpoints = nc] :
        b \in {1, 2}, sv \in {0, 2}, ev \in {0, 2}, nc \in {0, 2, 5}}
    \cup
    {[BaseConfig EXCEPT !.rollout_batch_size = 2, !.max_env_steps = 3,
                        !.save_interval = sv] : sv \in {0, 2}}
    \cup
    {[BaseConfig EXCEPT !.pretrained = "None", !.norm_obs = n] : n \in BOOLEAN}

\* Pre-training: the epoch cadences and the size of the collection.
PreConfigs ==
    {[BaseConfig EXCEPT !.pretraining = TRUE, !.pretrained = "None",
                        !.warm_up_steps = 0, !.norm_obs = n,
                        !.rollout_batch_size = b, !.save_interval = sv,
                        !.eval_interval = ev, !.constraint_steps_per_epoch = st,
                        !.num_checkpoints = nc] :
        n \in BOOLEAN, b \in {1, 2}, sv \in {0, 1}, ev \in {0, 1}, st \in {0, 3},
        nc \in {0, 3}}
    \cup
    {[BaseConfig EXCEPT !.pretraining = TRUE, !.pretrained = "None",
                        !.warm_up_steps = 0, !.eval_interval = 1,
                        !.rollout_batch_size = b, !.constraint_batch_size = bs] :
        b \in {1, 2}, bs \in {1, 3}}
    \cup
    {[BaseConfig EXCEPT !.pretraining = TRUE, !.pretrained = "None",
                        !.warm_up_steps = 0, !.eval_interval = ev,
                        !.rollout_batch_size = 3,
                        !.constraint_steps_per_epoch = 4,
                        !.constraint_buffer_size = 5] : ev \in {0, 1}}

Configs == MainConfigs \cup PreConfigs

\* The checkpoint files: model_latest.pt, model_best.pt, a path of the
\* user's, and the most recent step-tagged checkpoint.
Paths == {"latest", "best", "user", "tagged"}

----------------------------------------------------------------------------
(* The state machine.                                                      *)

Init ==
    /\ cfg \in Configs
    /\ self = NewSelf
    /\ env = NewEnv
    /\ eval_env = NewEvalEnv
    /\ random_state = Seed
    /\ files = [p \in Paths \cup {"pretrained"} |->
                  IF p = "pretrained" THEN PretrainedCheckpoint ELSE NoFile]
    /\ pc = "idle"
    /\ results = NoResults
    /\ last = [op |-> "init"]
    /\ hist = [n_evals |-> 0, max_score |-> 0, tagged |-> {},
               user_saved |-> [set |-> FALSE],
               pushes |-> <<>>, pushes_known |-> FALSE,
               prev_update |-> -1, cur_update |-> -1]
    /\ calls = 0
    /\ iter = NoIter
    /\ twin = NoTwin

\* A top-level call can be made when no call is in progress.
CanCall == pc = "idle" /\ calls < MaxCalls

\* The call every user of the controller makes first, after construction,
\* is reset(); it is not counted against the bound.
FirstReset == pc = "idle" /\ ~self.is_reset /\ last.op \in {"init", "restart"}

\* reset()
Reset ==
    /\ CanCall \/ FirstReset
    /\ calls' = IF FirstReset THEN calls ELSE calls + 1
    /\ IF reset_fails
       THEN /\ last' = [op |-> "reset", raised |-> "AssertionError",
                        before |-> World]
            /\ UNCHANGED <<self, env, eval_env, random_state, hist>>
       ELSE \E r \in {reset(World, files)} :
              /\ Commit(r.w)
              /\ last' = [op |-> "reset", raised |-> "None", before |-> World,
                          raw_obs |-> r.out.raw_obs]
              /\ hist' = [hist EXCEPT !.pushes = <<>>, !.pushes_known = TRUE,
                                      !.prev_update = -1, !.cur_update = -1]
    /\ UNCHANGED <<cfg, files, pc, results, iter, twin>>

\* save(path) called by the user on a path of their own.
Save ==
    /\ CanCall /\ self.is_reset
    /\ calls' = calls + 1
    /\ files' = [files EXCEPT !["user"] = save(World, TRUE)]
    /\ last' = [op |-> "save", before |-> World]
    /\ hist' = [hist EXCEPT !.user_saved = [set |-> TRUE, w |-> World]]
    /\ UNCHANGED <<cfg, self, env, eval_env, random_state, pc, results,
                   iter, twin>>

\* load(path)
Load(p) ==
    /\ CanCall /\ self.is_reset
    /\ files[p].exists
    /\ calls' = calls + 1
    /\ Commit(load(World, files[p]))
    /\ last' = [op |-> "load", path |-> p, before |-> World]
    /\ hist' = [hist EXCEPT !.pushes = <<>>, !.pushes_known = FALSE,
                           !.prev_update = -1, !.cur_update = -1]
    /\ UNCHANGED <<cfg, files, pc, results, iter, twin>>

\* run(env) called by the user: env is omitted or is the evaluation
\* environment.
Run(which) ==
    /\ CanCall /\ self.is_reset
    /\ calls' = calls + 1
    /\ \E r \in {run(World, which, EvalBatchSize)} :
         /\ Commit(r.w)
         /\ last' = [op |-> "run", which |-> which, on |-> r.out.on,
                     raised |-> r.out.raised, before |-> World, nz |-> r.out.nz]
    /\ UNCHANGED <<cfg, files, pc, results, hist, iter, twin>>

\* learn() is entered: the first test of the loop condition.  A training
\* run begins when learn() starts from step 0; entered at a later step
\* (after load) it continues the run.
LearnEnter ==
    /\ CanCall /\ self.is_reset
    /\ calls' = calls + 1
    /\ iter' = [NoIter EXCEPT !.entry_total = self.total_steps]
    /\ results' = NoResults
    /\ IF loop_continues(self.total_steps)
       THEN /\ pc' = "train"
            /\ last' = [op |-> "learn_enter"]
       ELSE /\ pc' = "idle"
            /\ last' = [op |-> "learn_exit", raised |-> "None", steps |-> 0,
                        entry_total |-> self.total_steps]
    /\ twin' = NoTwin
    /\ hist' = IF self.total_steps = 0
               THEN [hist EXCEPT !.n_evals = 0, !.max_score = 0, !.tagged = {}]
               ELSE hist
    /\ UNCHANGED <<cfg, self, env, eval_env, random_state, files>>

\* learn(): results = train_func()
LearnStep ==
    /\ pc = "train"
    /\ \E r \in {train_func(World)} :
         /\ Commit(r.w)
         /\ results' = [NoResults EXCEPT !.keys = r.results.keys,
                                         !.step = r.results.step]
         /\ last' = r.out
         /\ hist' = IF cfg.pretraining THEN hist
                    ELSE [hist EXCEPT
                            !.pushes = IF hist.pushes_known THEN @ \o r.out.pushed
                                       ELSE @,
                            !.prev_update = IF r.out.n_updates > 0
                                            THEN hist.cur_update ELSE @,
                            !.cur_update = IF r.out.n_updates > 0
                                           THEN r.results.step ELSE @]
         /\ twin' = IF twin.active
                    THEN [twin_iteration(twin) EXCEPT !.orig_acts = @ \o r.out.acts]
                    ELSE twin
    /\ iter' = [iter EXCEPT !.steps = @ + 1, !.saved_latest = FALSE,
                            !.saved_tagged = FALSE, !.evaluated = FALSE,
                            !.wrote_best = FALSE]
    /\ pc' = "checkpoint"
    /\ UNCHANGED <<cfg, files, calls>>

\* Right after learn() wrote the latest checkpoint, a second run is started
\* from it; from here on both runs are followed.
Resume ==
    /\ pc = "eval" /\ iter.saved_latest
    /\ ~twin.active
    /\ calls < MaxCalls
    /\ calls' = calls + 1
    /\ twin' = [active |-> TRUE, running |-> TRUE,
                w |-> resume(files["latest"], env, files),
                acts |-> <<>>, orig_acts |-> <<>>, at |-> self.total_steps]
    /\ UNCHANGED <<cfg, self, env, eval_env, random_state, files, pc, results,
                   last, hist, iter>>

\* learn(): the latest checkpoint and the intermediate checkpoint.
LearnCheckpoint ==
    /\ pc = "checkpoint"
    /\ LET f1 == IF latest_due(self.total_steps)
                 THEN [files EXCEPT !["latest"] = save(World, TRUE)] ELSE files
       IN IF tagged_raises
          THEN /\ files' = f1
               /\ pc' = "idle"
               /\ iter' = [iter EXCEPT !.saved_latest = latest_due(self.total_steps)]
               /\ last' = [op |-> "learn_exit", raised |-> "ZeroDivisionError",
                           steps |-> iter.steps, entry_total |-> iter.entry_total]
               /\ hist' = hist
          ELSE /\ files' = IF tagged_due(self.total_steps)
                           THEN [f1 EXCEPT !["tagged"] = save(World, FALSE)]
                           ELSE f1
               /\ pc' = "eval"
               /\ iter' = [iter EXCEPT !.saved_latest = latest_due(self.total_steps),
                                       !.saved_tagged = tagged_due(self.total_steps)]
               /\ last' = [op |-> "learn_checkpoint"]
               /\ hist' = IF tagged_due(self.total_steps)
                          THEN [hist EXCEPT !.tagged = @ \cup
                                  {[step |-> self.total_steps,
                                    has_buffer |-> save(World, FALSE).has_buffer]}]
                          ELSE hist
    /\ UNCHANGED <<cfg, self, env, eval_env, random_state, results, calls, twin>>

\* learn(): the periodic evaluation, and model_best.pt.
LearnEval ==
    /\ pc = "eval"
    /\ pc' = "log"
    /\ IF ~eval_due(self.total_steps)
       THEN /\ last' = [op |-> "learn_eval_skipped"]
            /\ UNCHANGED <<self, env, eval_env, random_state, files, results,
                           hist, iter>>
       ELSE IF cfg.pretraining
       THEN \E r \in {eval_constraint_models(World)} :
              /\ Commit(r.w)
              /\ results' = [results EXCEPT !.has_eval = TRUE,
                                            !.eval_keys = r.eval_results.keys]
              /\ last' = [r.out EXCEPT !.op = "learn_eval_constraint_models"]
              /\ iter' = [iter EXCEPT !.evaluated = TRUE]
              /\ UNCHANGED <<files, hist>>
       ELSE \E r \in {run(World, "eval_env", EvalBatchSize)} :
              LET eval_score == eval_score_of(r.eval_results)
                  better     == best_improved(self.eval_best_score, eval_score)
                  s2         == IF better
                                THEN [r.w.self EXCEPT !.eval_best_score =
                                        [set |-> TRUE, v |-> eval_score]]
                                ELSE r.w.self
                  w2         == [r.w EXCEPT !.self = s2]
              IN /\ Commit(w2)
                 /\ files' = IF better
                             THEN [files EXCEPT !["best"] = save(w2, TRUE)]
                             ELSE files
                 /\ results' = [results EXCEPT !.has_eval = TRUE,
                                               !.eval_keys = r.eval_results.keys]
                 /\ last' = [op |-> "learn_run", which |-> "eval_env",
                             on |-> r.out.on, raised |-> r.out.raised,
                             before |-> World, nz |-> r.out.nz]
                 /\ iter' = [iter EXCEPT !.evaluated = TRUE, !.wrote_best = better,
                                         !.score = eval_score,
                                         !.prior_evals = hist.n_evals,
                                         !.prior_max = hist.max_score]
                 /\ hist' = [hist EXCEPT !.n_evals = @ + 1,
                                         !.max_score = Max(@, eval_score)]
    /\ UNCHANGED <<cfg, calls, twin>>

\* learn(): the periodic logging, then the loop condition again.
LearnLog ==
    /\ pc = "log"
    /\ IF log_due(self.total_steps) /\ log_step_raises(results)
       THEN /\ pc' = "idle"
            /\ last' = [op |-> "learn_exit", raised |-> "KeyError",
                        steps |-> iter.steps, entry_total |-> iter.entry_total]
       ELSE IF loop_continues(self.total_steps)
       THEN /\ pc' = "train"
            /\ last' = [op |-> "learn_log"]
       ELSE /\ pc' = "idle"
            /\ last' = [op |-> "learn_exit", raised |-> "None",
                        steps |-> iter.steps, entry_total |-> iter.entry_total]
    /\ UNCHANGED <<cfg, self, env, eval_env, random_state, files, results, hist,
                   calls, iter, twin>>

\* The process ends (at any point) and a new one constructs the controller
\* again over the same output directory: __init__.
Restart ==
    /\ calls < MaxCalls
    /\ last.op # "init"
    /\ calls' = calls + 1
    /\ self' = NewSelf
    /\ env' = NewEnv
    /\ eval_env' = NewEvalEnv
    /\ random_state' = Seed
    /\ pc' = "idle"
    /\ results' = NoResults
    /\ iter' = NoIter
    /\ last' = [op |-> "restart"]
    /\ twin' = NoTwin
    /\ hist' = [hist EXCEPT !.pushes = <<>>, !.pushes_known = FALSE,
                           !.prev_update = -1, !.cur_update = -1]
    /\ UNCHANGED <<cfg, files>>

Next ==
    \/ Reset
    \/ Save
    \/ \E p \in Paths : Load(p)
    \/ \E which \in {"None", "eval_env"} : Run(which)
    \/ LearnEnter
    \/ LearnStep
    \/ Resume
    \/ LearnCheckpoint
    \/ LearnEval
    \/ LearnLog
    \/ Restart

Spec == Init /\ [][Next]_vars

----------------------------------------------------------------------------
(* The claims.                                                             *)

\* The terminal observations of the time-truncated instances of a step, in
\* instance order, and the rank of instance i among them.
TruncatedObs(info) ==
    LET idx == SelectSeq([i \in 1..Len(info) |-> i],
                         LAMBDA i : info[i].has_terminal /\ info[i].truncated)
    IN  [k \in 1..Len(idx) |-> info[idx[k]].terminal_observation]

TruncatedRank(info, i) ==
    Cardinality({j \in 1..i : info[j].has_terminal /\ info[j].truncated})

\* C1: in every train_step and for every instance i, a time-truncated end is
\* pushed with mask 1 and the normalized terminal observation as next_obs, a
\* true termination with mask 0, and a step that ends no episode with mask 1
\* and the normalized stepped observation.
C1_TruncationCorrection ==
    last.op = "train_step" =>
      \A i \in 1..B :
        LET inf == last.step.info[i]
            p   == last.pushed[i]
        IN  /\ (inf.has_terminal /\ inf.truncated) =>
                 /\ p.mask = 1
                 /\ p.next_obs = Normalize(last.nz_terminal,
                                    TruncatedObs(last.step.info))[TruncatedRank(last.step.info, i)]
            /\ (last.step.done[i] /\ ~inf.truncated) => p.mask = 0
            /\ ~last.step.done[i] =>
                 /\ p.mask = 1
                 /\ p.next_obs = Normalize(last.nz_step, last.step.obs)[i]

\* C1 witness: a train_step in which one instance is time-truncated, its
\* pushed next_obs differing from the normalized reset observation the step
\* returned, while another instance truly terminates.
C1_Witness ==
    /\ last.op = "train_step"
    /\ \E i, j \in 1..B :
         /\ last.step.info[i].has_terminal /\ last.step.info[i].truncated
         /\ last.pushed[i].next_obs # Normalize(last.nz_step, last.step.obs)[i]
         /\ last.step.done[j] /\ ~last.step.info[j].truncated

\* C2: load(path) after save(path) and any operations in between restores
\* total_steps, obs, c, both PRNG states and the Replay Buffer (and the
\* Constraint Buffer in pretraining) to their values at the save; save
\* changes none of them.
C2_CheckpointRoundTrip ==
    /\ last.op = "save" => World = last.before
    /\ (last.op = "load" /\ last.path = "user") =>
         LET w0 == hist.user_saved.w
         IN  /\ self.total_steps = w0.self.total_steps
             /\ self.obs = w0.self.obs
             /\ self.c = w0.self.c
             /\ random_state = w0.random_state
             /\ env.rng = w0.env.rng
             /\ self.buffer = w0.self.buffer
             /\ cfg.pretraining => self.constraint_buffer = w0.self.constraint_buffer

\* C2 witness: a load that brings back a saved state the controller had
\* since left (other step count, other buffer, other PRNG states).
C2_Witness ==
    /\ last.op = "load" /\ last.path = "user"
    /\ last.before.self.total_steps # self.total_steps
    /\ last.before.self.buffer # self.buffer
    /\ self.buffer.buffer_size > 0
    /\ last.before.env.rng # env.rng
    /\ last.before.random_state # random_state

\* C3: a run resumed from the latest checkpoint, on an environment in the
\* state it had at the save, takes the same training actions from there on
\* as the run that went on without saving and loading.
C3_ResumeEquivalence ==
    twin.active => twin.acts = twin.orig_acts

\* C4: a train_step entered below warm_up_steps draws all its actions from
\* the action-space sampler and does not query the policy; entered at or
\* above it, the action is the policy's safety-projected action for the
\* current (obs, c).
C4_WarmUpGating ==
    last.op = "train_step" =>
      /\ last.entry_total < cfg.warm_up_steps =>
           /\ last.n_sampled = B /\ last.n_policy = 0
           /\ last.act = SampleActions(B, last.entry_rng).act
      /\ last.entry_total >= cfg.warm_up_steps =>
           /\ last.n_sampled = 0 /\ last.n_policy = 1
           /\ last.act = [i \in 1..B |->
                            ac_act(last.entry_agent, last.entry_safety,
                                   last.entry_obs[i], last.entry_c[i])]

\* C4 witness: the first policy-driven step after a warm-up phase, with an
\* action the sampler would not have drawn.
C4_Witness ==
    /\ last.op = "train_step"
    /\ cfg.warm_up_steps > 0
    /\ last.entry_total = cfg.warm_up_steps
    /\ last.act # SampleActions(B, last.entry_rng).act

\* C5: run() on the evaluation environment, whether called by the user or
\* by learn(), leaves total_steps, obs, c and the Replay Buffer as they were.
C5_EvaluationNonInterference ==
    (last.op \in {"run", "learn_run"} /\ last.which = "eval_env") =>
      /\ self.total_steps = last.before.self.total_steps
      /\ self.obs = last.before.self.obs
      /\ self.c = last.before.self.c
      /\ self.buffer = last.before.self.buffer

\* C5 witness: an evaluation between training steps that moved the
\* evaluation environment, with transitions in the Replay Buffer.
C5_Witness ==
    /\ last.op = "learn_run" /\ last.which = "eval_env"
    /\ eval_env # last.before.eval_env
    /\ self.buffer.buffer_size > 0
    /\ self.total_steps < final_step

\* C6: model_best.pt is written at an evaluation exactly when its score
\* strictly exceeds the score of every earlier evaluation of the run.
C6_BestModelTracking ==
    (last.op = "learn_run" /\ cfg.eval_save_best) =>
      (iter.wrote_best <=> (iter.prior_evals = 0 \/ iter.score > iter.prior_max))

\* C7: after each step of learn() the latest checkpoint is written, with
\* the buffer, exactly when total_steps reached the budget or save_interval
\* is non-zero and divides it; when learn() returns after at least one step
\* the latest checkpoint records the final total_steps.
C7_LatestCadence ==
    /\ (pc \in {"eval", "log"} \/ (pc = "train" /\ iter.steps > 0)) =>
         /\ iter.saved_latest <=>
              (self.total_steps >= final_step
               \/ (cfg.save_interval # 0 /\ self.total_steps % cfg.save_interval = 0))
         /\ iter.saved_latest =>
              /\ files["latest"].exists /\ files["latest"].has_buffer
              /\ files["latest"].total_steps = self.total_steps
              /\ files["latest"].buffer = self.buffer
    /\ (last.op = "learn_exit" /\ last.raised = "None" /\ last.steps > 0) =>
         /\ files["latest"].exists /\ files["latest"].has_buffer
         /\ files["latest"].total_steps = self.total_steps

\* C7 witness: learn() has returned after several steps with save_interval
\* off, the only latest checkpoint being the final one.
C7_Witness ==
    /\ last.op = "learn_exit" /\ last.raised = "None" /\ last.steps > 1
    /\ cfg.save_interval = 0
    /\ files["latest"].exists /\ files["latest"].total_steps = self.total_steps

\* C8: learn() is left only when the budget is exhausted, steps only below
\* the budget, and makes no step when entered at or above the budget.
C8_ExitOnlyAtBudget ==
    /\ pc = "checkpoint" => last.entry_total < final_step
    /\ last.op = "learn_exit" =>
         /\ self.total_steps >= final_step
         /\ last.entry_total >= final_step => last.steps = 0

\* C9 (as amended): reset() without a pre-trained path in adaptation mode
\* fails and changes nothing; with a path it takes only the safety-layer
\* parameters from the checkpoint, the agent parameters stay, and the
\* normalizer statistics change only by absorbing the initial observation.
C9_ResetAdaptation ==
    last.op = "reset" =>
      /\ last.raised = "AssertionError" <=> (~cfg.pretraining /\ cfg.pretrained = "None")
      /\ last.raised = "AssertionError" => (World = last.before /\ ~self.is_reset)
      /\ (last.raised = "None" /\ ~cfg.pretraining) =>
           /\ self.safety_layer = files[cfg.pretrained].safety_layer
           /\ self.agent = last.before.self.agent
           /\ self.reward_normalizer = last.before.self.reward_normalizer
           /\ normalizer_state_dict(self.obs_normalizer) =
                IF cfg.norm_obs /\ ~last.before.self.obs_normalizer.read_only
                THEN [count |-> last.before.self.obs_normalizer.count + B,
                      sum   |-> last.before.self.obs_normalizer.sum + SumSeq(last.raw_obs)]
                ELSE normalizer_state_dict(last.before.self.obs_normalizer)

\* C9 as stated: after a reset() with a path, the normalizer statistics are
\* what they were before.
C9_Original ==
    (last.op = "reset" /\ last.raised = "None" /\ ~cfg.pretraining) =>
      /\ self.safety_layer = files[cfg.pretrained].safety_layer
      /\ self.agent = last.before.self.agent
      /\ normalizer_state_dict(self.obs_normalizer) =
           normalizer_state_dict(last.before.self.obs_normalizer)

\* C9 witness: a successful adaptation reset that changed the safety layer,
\* with observation normalization on.
C9_Witness ==
    /\ last.op = "reset" /\ last.raised = "None" /\ ~cfg.pretraining
    /\ cfg.norm_obs
    /\ self.safety_layer # last.before.self.safety_layer
    /\ files[cfg.pretrained].agent # self.agent
    /\ files[cfg.pretrained].obs_normalizer # normalizer_state_dict(self.obs_normalizer)

\* C10: run() without an environment argument evaluates on the evaluation
\* environment and leaves the training environment alone.
C10_RunDefaultEnv ==
    (last.op = "run" /\ last.which = "None") =>
      /\ last.on = "eval_env"
      /\ env = last.before.env

\* The transitions a buffer retains, oldest first.
Retained(buf) ==
    IF buf.buffer_size < buf.max_size THEN SubSeq(buf.data, 1, buf.buffer_size)
    ELSE SubSeq(buf.data, buf.pos + 1, buf.max_size) \o SubSeq(buf.data, 1, buf.pos)

\* The last n items of a sequence (all of it when it is shorter).
LastN(s, n) == SubSeq(s, Max(1, Len(s) - n + 1), Len(s))

\* C11: after any sequence of train_step pushes into the Replay Buffer
\* allocated by reset(), the buffer holds at most max_buffer_size
\* transitions, and they are the most recently pushed ones in insertion
\* order.
C11_RingBufferBound ==
    (hist.pushes_known /\ ~cfg.pretraining) =>
      /\ self.buffer.buffer_size <= cfg.max_buffer_size
      /\ self.buffer.buffer_size = Min(cfg.max_buffer_size, Len(hist.pushes))
      /\ Retained(self.buffer) = LastN(hist.pushes, cfg.max_buffer_size)

\* C11 witness: more transitions were pushed than the buffer holds, the
\* last batch wrapping around the end of the storage, and an overwritten
\* transition differs from what replaced it.
C11_Witness ==
    /\ hist.pushes_known /\ ~cfg.pretraining
    /\ B = 2
    /\ Len(hist.pushes) > cfg.max_buffer_size
    /\ hist.pushes[1] # self.buffer.data[1]

\* The items of a sequence of mini-batches, in iteration order.
RECURSIVE Flatten(_)
Flatten(bs) == IF bs = <<>> THEN <<>> ELSE Head(bs) \o Flatten(Tail(bs))

\* C12: the mini-batches pretrain_step and eval_constraint_models iterate
\* hold every stored item of the Constraint Buffer exactly once, none is
\* empty or longer than constraint_batch_size, and pretrain_step makes one
\* safety-layer update per mini-batch: ceil(M / batch_size) of them.
C12_ConstraintBufferCoverage ==
    last.op \in {"pretrain_step", "learn_eval_constraint_models"} =>
      /\ Flatten(last.batches) = last.stored
      /\ \A k \in 1..Len(last.batches) :
            Len(last.batches[k]) \in 1..cfg.constraint_batch_size
      /\ Len(last.batches) =
            (Len(last.stored) + cfg.constraint_batch_size - 1)
              \div cfg.constraint_batch_size
      /\ last.op = "pretrain_step" => last.n_updates = Len(last.batches)

\* C12 witness: a pre-training epoch whose collection is not a multiple of
\* the batch size, the last update being made on a shorter mini-batch.
C12_Witness ==
    /\ last.op = "pretrain_step"
    /\ Len(last.stored) % cfg.constraint_batch_size # 0
    /\ last.n_updates > 1
    /\ Len(last.batches[last.n_updates]) < cfg.constraint_batch_size

\* The global PRNG after n draws.
RECURSIVE LcgN(_, _)
LcgN(r, n) == IF n = 0 THEN r ELSE LcgN(Lcg(r), n - 1)

\* The global PRNG of the last train_step after its action selection.
RngAfterAct ==
    IF last.n_sampled > 0 THEN SampleActions(B, last.entry_rng).rng ELSE last.entry_rng

\* train_step makes train_interval agent updates, each on train_batch_size
\* fresh draws from the buffer, when the incremented total_steps is past
\* warm_up_steps and a multiple of train_interval, and none otherwise.
UpdateCadence ==
    LET total == last.entry_total + B
        due   == total > cfg.warm_up_steps /\ total % cfg.train_interval = 0
    IN  /\ last.n_updates = IF due THEN cfg.train_interval ELSE 0
        /\ random_state = LcgN(RngAfterAct, last.n_updates * cfg.train_batch_size)

\* C13 (as amended): the update cadence of train_step; a step whose action
\* was drawn by the warm-up sampler makes updates only when its increment
\* carries total_steps past warm_up_steps.
C13_UpdateCadence ==
    last.op = "train_step" =>
      /\ UpdateCadence
      /\ (last.n_sampled > 0 /\ last.n_updates > 0) =>
            /\ B > 1
            /\ last.entry_total < cfg.warm_up_steps
            /\ cfg.warm_up_steps < last.entry_total + B

\* C13 as stated: the update cadence, and no update in a step whose action
\* was drawn by the warm-up sampler.
C13_Original ==
    last.op = "train_step" =>
      /\ last.n_updates = IF update_due(last.entry_total + B)
                          THEN cfg.train_interval ELSE 0
      /\ last.n_sampled > 0 => last.n_updates = 0

\* C13 witness: a step with sampled actions that makes train_interval > 1
\* updates.
C13_Witness ==
    /\ last.op = "train_step"
    /\ last.n_sampled > 0
    /\ cfg.train_interval > 1
    /\ last.n_updates = cfg.train_interval

\* C14: at every update-triggering train_step that follows an earlier one,
\* the number of agent updates made equals the increase of total_steps
\* since that earlier step (no update being made in between).
C14_UpdateRatio ==
    (last.op = "train_step" /\ last.n_updates > 0 /\ hist.prev_update >= 0) =>
      /\ hist.cur_update = self.total_steps
      /\ last.n_updates = hist.cur_update - hist.prev_update

\* C15: no train_step samples an empty Replay Buffer: a step that makes
\* updates has pushed its transitions into the buffer it then samples.
C15_NoEmptySample ==
    last.op = "train_step" =>
      /\ ~last.sampled_empty
      /\ last.n_updates > 0 =>
            /\ Len(last.pushed) >= 1
            /\ self.buffer.buffer_size >= Min(cfg.max_buffer_size, Len(last.pushed))

\* C15 witness: updates in the first step after a checkpoint without a
\* buffer was loaded: the buffer holds nothing but that step's push.
C15_Witness ==
    /\ last.op = "train_step"
    /\ last.n_updates > 0
    /\ last.entry_total > 0
    /\ self.buffer.buffer_size = Len(last.pushed)
    /\ self.buffer.buffer_size < cfg.max_buffer_size

\* C16: with num_checkpoints configured, the intermediate-checkpoint test
\* never fails; a step-tagged checkpoint is written after a step exactly
\* when total_steps is a multiple of budget \div num_checkpoints, always
\* without the Replay Buffer; a full run from step 0 writes num_checkpoints
\* of them.
C16_IntermediateCheckpoints ==
    /\ last.op = "learn_exit" => last.raised # "ZeroDivisionError"
    /\ (cfg.num_checkpoints # 0 /\ ~tagged_raises) =>
         /\ pc \in {"eval", "log"} =>
               (iter.saved_tagged <=>
                  self.total_steps % (final_step \div cfg.num_checkpoints) = 0)
         /\ \A f \in hist.tagged : ~f.has_buffer
         /\ (last.op = "learn_exit" /\ last.raised = "None" /\ last.entry_total = 0
             /\ last.steps > 0) =>
               Cardinality(hist.tagged) = cfg.num_checkpoints

\* The transitions pushed by the collection steps of a call, in order.
RECURSIVE CollectedBy(_)
CollectedBy(steps) ==
    IF steps = <<>> THEN <<>> ELSE Head(steps).batch \o CollectedBy(Tail(steps))

\* C17: every pretrain_step and eval_constraint_models of learn() finds the
\* Constraint Buffer empty and leaves it empty, iterates exactly the
\* transitions it collected itself, and the checkpoints learn() writes in
\* pretraining hold an empty Constraint Buffer.
C17_ConstraintBufferIsolation ==
    /\ last.op \in {"pretrain_step", "learn_eval_constraint_models"} =>
         /\ last.held_before = 0
         /\ self.constraint_buffer.buffer_size = 0
         /\ last.stored = CollectedBy(last.steps)
         /\ Len(last.stored) = last.pushed
    /\ cfg.pretraining =>
         \A p \in {"latest", "tagged"} :
           files[p].exists =>
             /\ files[p].has_constraint_buffer
             /\ files[p].constraint_buffer.buffer_size = 0

\* What collect_constraint_data observed before its k-th step: the reset
\* for the first step, the step before otherwise.
ObservedBefore(k) == IF k = 1 THEN last.start ELSE last.steps[k - 1]

\* C18: in every step of collect_constraint_data and for every instance i,
\* the pushed c_next is the terminal constraint value when the step ended
\* i's episode and the observed one otherwise; the pushed c and obs are the
\* constraint value and the normalized observation observed before the
\* step (after the reset, when the step before ended the episode).
C18_ConstraintTransition ==
    last.op \in {"pretrain_step", "learn_eval_constraint_models"} =>
      \A k \in 1..Len(last.steps) : \A i \in 1..B :
        LET sp == last.steps[k]
            p  == sp.batch[i]
        IN  /\ p.c_next = IF sp.done[i] THEN sp.info[i].terminal_c
                          ELSE sp.info[i].constraint_values
            /\ p.c = ObservedBefore(k).info[i].constraint_values
            /\ p.obs = Normalize(ObservedBefore(k).nz, ObservedBefore(k).obs)[i]
            /\ p.act = last.acts[k][i]

\* C18 witness: a collection step that ends the episode of one instance
\* and not of the other, the terminal constraint value differing from the
\* one observed after the reset, followed by another step.
C18_Witness ==
    /\ last.op = "pretrain_step"
    /\ B = 2
    /\ \E k \in 1..(Len(last.steps) - 1) : \E i, j \in 1..B :
         /\ last.steps[k].done[i] /\ ~last.steps[k].done[j]
         /\ last.steps[k].info[i].terminal_c # last.steps[k].info[i].constraint_values
         /\ last.steps[k + 1].batch[i].c = last.steps[k].info[i].constraint_values

\* C19: the observation normalizer is writable at every normalization of
\* train_step and pretrain_step, read-only at every normalization of run
\* and eval_constraint_models, and still read-only after an evaluation,
\* until the next training step.
C19_NormalizerModes ==
    /\ last.op = "train_step" =>
         /\ ~last.nz_step.read_only /\ ~last.nz_terminal.read_only
         /\ ~self.obs_normalizer.read_only
    /\ last.op = "pretrain_step" =>
         /\ ~last.start.nz.read_only
         /\ \A k \in 1..Len(last.steps) : ~last.steps[k].nz.read_only
         /\ ~self.obs_normalizer.read_only
    /\ last.op = "learn_eval_constraint_models" =>
         /\ last.start.nz.read_only
         /\ \A k \in 1..Len(last.steps) : last.steps[k].nz.read_only
    /\ last.op \in {"run", "learn_run"} =>
         /\ last.nz.read_only
         /\ normalizer_state_dict(self.obs_normalizer) =
              normalizer_state_dict(last.before.self.obs_normalizer)
    /\ (last.op \in {"run", "learn_run", "learn_eval_constraint_models"}
        \/ iter.evaluated) => self.obs_normalizer.read_only

\* C19 witness: a training step right after an evaluation, which finds the
\* normalizer read-only and updates its statistics.
C19_Witness ==
    /\ last.op = "train_step"
    /\ cfg.norm_obs
    /\ last.entry_nz.read_only
    /\ normalizer_state_dict(self.obs_normalizer) # normalizer_state_dict(last.entry_nz)

\* C20: a train_step or pretrain_step that made no update returns only
\* step and elapsed_time, an eval_constraint_models over no mini-batch
\* returns no loss, and log_step never fails on the results of a step.
C20_EmptyMetrics ==
    /\ (last.op \in {"train_step", "pretrain_step"} /\ last.n_updates = 0) =>
         results.keys = {"step", "elapsed_time"}
    /\ (last.op = "learn_eval_constraint_models" /\ last.n_batches = 0) =>
         results.eval_keys = {}
    /\ last.op = "learn_exit" => last.raised # "KeyError"

\* The step of learn() that calls the train function.
IsTrainFunc == pc = "train" /\ pc' = "checkpoint"

\* The values total_steps takes: 0 after reset(); in main training from
\* reset() the number of transitions pushed, a multiple of
\* rollout_batch_size; when learn() returns after at least one step, at
\* least the budget and less than budget + rollout_batch_size (the budget
\* itself in pretraining).
StepCounterValues ==
    /\ (last.op = "reset" /\ last.raised = "None") => self.total_steps = 0
    /\ (hist.pushes_known /\ ~cfg.pretraining) =>
          /\ self.total_steps = Len(hist.pushes)
          /\ self.total_steps % B = 0
    /\ (last.op = "learn_exit" /\ last.raised = "None" /\ last.steps > 0) =>
          /\ final_step <= self.total_steps
          /\ self.total_steps < final_step + B
          /\ cfg.pretraining => self.total_steps = final_step

\* The changes of total_steps: train_step adds rollout_batch_size,
\* pretrain_step adds 1, and nothing else but reset() and load() (and the
\* construction of a new controller) changes it.
StepCounterChanges ==
    /\ IsTrainFunc =>
          self'.total_steps = self.total_steps + (IF cfg.pretraining THEN 1 ELSE B)
    /\ (~IsTrainFunc /\ last'.op \notin {"reset", "load", "restart"}) =>
          self'.total_steps = self.total_steps

\* C21: total_steps is set to 0 by reset(), grows by rollout_batch_size per
\* train_step and by 1 per pretrain_step, is changed by nothing else but
\* load(), and ends a learn() that returns within rollout_batch_size of the
\* budget.
C21_StepCounter == []StepCounterValues /\ [][StepCounterChanges]_vars

\* C21 witness: learn() has returned from a main training started at
\* reset() with total_steps beyond the budget.
C21_Witness ==
    /\ last.op = "learn_exit" /\ last.raised = "None" /\ last.steps > 1
    /\ ~cfg.pretraining /\ hist.pushes_known
    /\ B > 1
    /\ self.total_steps > final_step

\* The step count collect_constraint_data was called with.
RequestedSteps ==
    IF last.op = "pretrain_step" THEN cfg.constraint_steps_per_epoch
    ELSE cfg.constraint_eval_steps

\* C22: collect_constraint_data(num_steps) makes ceil(num_steps /
\* rollout_batch_size) vectorized steps and pushes rollout_batch_size
\* transitions in each; with num_steps below the capacity of the
\* Constraint Buffer, the transitions pushed since the buffer was last
\* cleared are all held and never number more than the capacity.
C22_ConstraintBufferCapacity ==
    last.op \in {"pretrain_step", "learn_eval_constraint_models"} =>
      /\ Len(last.steps) = (RequestedSteps + B - 1) \div B
      /\ last.pushed = B * Len(last.steps)
      /\ RequestedSteps < cfg.constraint_buffer_size =>
            /\ last.held_before + last.pushed <= cfg.constraint_buffer_size
            /\ Len(last.stored) = last.held_before + last.pushed

====
